---- MODULE Spec2Model ----
(***************************************************************************)
(* The request gateway of the LegalEase frontend,                          *)
(* src/frontend/src/services/api.ts: one configured axios instance, two    *)
(* logging interceptors, five groups of endpoint operations and the        *)
(* error-normalisation helper handleAPIError.                              *)
(*                                                                         *)
(* A JavaScript string is a sequence of one-character strings, so that     *)
(* template literals, toString() and URL encoding are computed character   *)
(* by character.  A JavaScript value is a record tagged by its type.       *)
(***************************************************************************)
EXTENDS Integers, Sequences, FiniteSets

VARIABLES
    config,      \* the axios instance's defaults (api.ts 12-18)
    calls,       \* per invocation: its position, request, transport outcome, result
    console,     \* per invocation: the entries the interceptors wrote for it
    failure,     \* the value handed to handleAPIError
    normalized   \* what handleAPIError did with it

vars == <<config, calls, console, failure, normalized>>

-----------------------------------------------------------------------------
(* JavaScript values *)

Undef == [t |-> "undefined"]
Null == [t |-> "null"]
Str(s) == [t |-> "string", s |-> s]
Num(n) == [t |-> "number", n |-> n]
\* An object is the sequence of its own enumerable properties in insertion order.
Obj(entries) == [t |-> "object", e |-> entries]
Prop(k, v) == [k |-> k, v |-> v]

IsNullish(v) == v.t \in {"undefined", "null"}

\* ToBoolean: undefined, null, "" and 0 are falsy; objects are truthy.
Truthy(v) ==
    CASE v.t = "undefined" -> FALSE
      [] v.t = "null" -> FALSE
      [] v.t = "string" -> v.s # <<>>
      [] v.t = "number" -> v.n # 0
      [] OTHER -> TRUE

\* a || b
Or(a, b) == IF Truthy(a) THEN a ELSE b

\* v.k on a value that is not null or undefined: an absent property, and any
\* of these properties of a primitive, reads as undefined.
Get(v, k) ==
    IF v.t = "object" /\ \E i \in 1..Len(v.e) : v.e[i].k = k
    THEN v.e[CHOOSE i \in 1..Len(v.e) : v.e[i].k = k /\ \A j \in 1..(i-1) : v.e[j].k # k].v
    ELSE Undef

-----------------------------------------------------------------------------
(* String literals of api.ts *)

K_response == <<"r","e","s","p","o","n","s","e">>
K_request == <<"r","e","q","u","e","s","t">>
K_message == <<"m","e","s","s","a","g","e">>
K_status == <<"s","t","a","t","u","s">>
K_data == <<"d","a","t","a">>
K_code == <<"c","o","d","e">>
K_detail == <<"d","e","t","a","i","l">>
K_error == <<"e","r","r","o","r">>
K_error_code == <<"e","r","r","o","r","_","c","o","d","e">>

AN_ERROR_OCCURRED == <<"A","n"," ","e","r","r","o","r"," ","o","c","c","u","r","r","e","d">>
NETWORK_ERROR_MESSAGE == <<"N","e","t","w","o","r","k"," ","e","r","r","o","r"," ","-"," ","p","l","e","a","s","e"," ","c","h","e","c","k"," ","y","o","u","r"," ","c","o","n","n","e","c","t","i","o","n">>
NETWORK_ERROR == <<"N","E","T","W","O","R","K","_","E","R","R","O","R">>
UNEXPECTED_ERROR_MESSAGE == <<"A","n"," ","u","n","e","x","p","e","c","t","e","d"," ","e","r","r","o","r"," ","o","c","c","u","r","r","e","d">>
UNKNOWN_ERROR == <<"U","N","K","N","O","W","N","_","E","R","R","O","R">>

-----------------------------------------------------------------------------
(* handleAPIError, api.ts 147-171 *)

Return(v) == [kind |-> "return", value |-> v]
\* Reading a property of undefined or null throws a TypeError.
ThrowTypeError == [kind |-> "throw", exception |-> "TypeError"]

NormalizedError(msg, st, cd) ==
    Obj(<<Prop(K_message, msg), Prop(K_status, st), Prop(K_code, cd)>>)

\* As handleAPIError, with the network case passing the failure's message on.
handleAPIError_passMessage(err) ==
    IF IsNullish(err) THEN ThrowTypeError
    ELSE IF Truthy(Get(err, K_response)) THEN
        LET res == Get(err, K_response)
            st == Get(res, K_status)
            body == Get(res, K_data)
        IN  IF IsNullish(body) THEN ThrowTypeError
            ELSE Return(NormalizedError(
                     Or(Or(Get(body, K_detail), Get(body, K_error)), Str(AN_ERROR_OCCURRED)),
                     st,
                     Get(body, K_error_code)))
    ELSE IF Truthy(Get(err, K_request)) THEN
        Return(NormalizedError(Or(Get(err, K_message), Str(NETWORK_ERROR_MESSAGE)),
                               Num(0), Str(NETWORK_ERROR)))
    ELSE
        Return(NormalizedError(Or(Get(err, K_message), Str(UNEXPECTED_ERROR_MESSAGE)),
                               Num(-1), Str(UNKNOWN_ERROR)))

handleAPIError(err) ==
    IF IsNullish(err) THEN ThrowTypeError                     \* error.response
    ELSE IF Truthy(Get(err, K_response)) THEN
        LET res == Get(err, K_response)
            st == Get(res, K_status)
            body == Get(res, K_data)
        IN  IF IsNullish(body) THEN ThrowTypeError            \* data.detail
            ELSE Return(NormalizedError(
                     Or(Or(Get(body, K_detail), Get(body, K_error)), Str(AN_ERROR_OCCURRED)),
                     st,
                     Get(body, K_error_code)))
    ELSE IF Truthy(Get(err, K_request)) THEN
        Return(NormalizedError(Str(NETWORK_ERROR_MESSAGE), Num(0), Str(NETWORK_ERROR)))
    ELSE
        Return(NormalizedError(Or(Get(err, K_message), Str(UNEXPECTED_ERROR_MESSAGE)),
                               Num(-1), Str(UNKNOWN_ERROR)))

-----------------------------------------------------------------------------
(* String conversion, URLSearchParams, FormData, JSON *)

DigitChar == <<"0","1","2","3","4","5","6","7","8","9">>

RECURSIVE NatToString(_)
NatToString(n) ==
    IF n < 10 THEN <<DigitChar[n + 1]>>
    ELSE NatToString(n \div 10) \o <<DigitChar[(n % 10) + 1]>>

\* String(v), as a template literal and Number.prototype.toString compute it.
ToString(v) ==
    CASE v.t = "string" -> v.s
      [] v.t = "number" -> IF v.n < 0 THEN <<"-">> \o NatToString(-v.n) ELSE NatToString(v.n)
      [] v.t = "null" -> <<"n","u","l","l">>
      [] OTHER -> <<"u","n","d","e","f","i","n","e","d">>

\* A default parameter value replaces undefined only.
Default(v, d) == IF v.t = "undefined" THEN d ELSE v

Letters ==
    {"a","b","c","d","e","f","g","h","i","j","k","l","m","n","o","p","q","r","s","t",
     "u","v","w","x","y","z","A","B","C","D","E","F","G","H","I","J","K","L","M","N",
     "O","P","Q","R","S","T","U","V","W","X","Y","Z"}
Unreserved == Letters \cup {DigitChar[i] : i \in 1..10} \cup {"*", "-", ".", "_"}

\* The percent-encodings of the other characters the model's strings use.
PercentCode ==
    [ch \in {"&", "=", "+", "%", "?", "/", "#", ":"} |->
        CASE ch = "&" -> <<"%","2","6">> [] ch = "=" -> <<"%","3","D">> [] ch = "+" -> <<"%","2","B">>
          [] ch = "%" -> <<"%","2","5">> [] ch = "?" -> <<"%","3","F">> [] ch = "/" -> <<"%","2","F">>
          [] ch = "#" -> <<"%","2","3">> [] ch = ":" -> <<"%","3","A">>]

\* application/x-www-form-urlencoded serialisation of one name or value.
RECURSIVE FormUrlEncode(_)
FormUrlEncode(s) ==
    IF s = <<>> THEN <<>>
    ELSE LET ch == Head(s)
         IN (IF ch \in Unreserved THEN <<ch>>
             ELSE IF ch = " " THEN <<"+">>
             ELSE PercentCode[ch]) \o FormUrlEncode(Tail(s))

NewURLSearchParams == <<>>
URLSearchParams_append(sp, name, value) == Append(sp, [name |-> name, value |-> value])

RECURSIVE URLSearchParams_toString(_)
URLSearchParams_toString(sp) ==
    IF sp = <<>> THEN <<>>
    ELSE FormUrlEncode(Head(sp).name) \o <<"=">> \o FormUrlEncode(Head(sp).value)
         \o (IF Tail(sp) = <<>> THEN <<>> ELSE <<"&">> \o URLSearchParams_toString(Tail(sp)))

NewFormData == [t |-> "formdata", parts |-> <<>>]
FormData_append(fd, name, value) ==
    [fd EXCEPT !.parts = Append(@, [name |-> name, value |-> value])]

\* JSON.stringify of an object: a member whose value is undefined is left out.
RECURSIVE JSONMembers(_)
JSONMembers(entries) ==
    IF entries = <<>> THEN <<>>
    ELSE (IF Head(entries).v.t = "undefined" THEN <<>> ELSE <<Head(entries)>>)
         \o JSONMembers(Tail(entries))

-----------------------------------------------------------------------------
(* Configuration and the axios instance, api.ts 8-18 *)

LOCALHOST == <<"h","t","t","p",":","/","/","l","o","c","a","l","h","o","s","t",":","8","0","0","0">>
V1 == <<"v","1">>
APPLICATION_JSON == <<"a","p","p","l","i","c","a","t","i","o","n","/","j","s","o","n">>
MULTIPART_FORM_DATA == <<"m","u","l","t","i","p","a","r","t","/","f","o","r","m","-","d","a","t","a">>
TimeoutMs == 30000

API_BASE_URL(env) == Or(env.REACT_APP_API_URL, Str(LOCALHOST))
API_VERSION(env) == Or(env.REACT_APP_API_VERSION, Str(V1))

CreateApi(env) ==
    [t |-> "defaults",
     baseURL |-> API_BASE_URL(env).s \o <<"/","a","p","i","/">> \o API_VERSION(env).s,
     timeout |-> TimeoutMs,
     contentType |-> APPLICATION_JSON]

\* The request configuration of one call: the instance defaults merged with
\* the call's method, url, data and headers.
RequestConfig(method, url, body, contentType) ==
    [t |-> "config", method |-> method, url |-> url, data |-> body,
     baseURL |-> config.baseURL, timeout |-> config.timeout,
     contentType |-> contentType]

api_get(url) == RequestConfig("get", url, Undef, config.contentType)
api_delete(url) == RequestConfig("delete", url, Undef, config.contentType)
api_post(url, body) == RequestConfig("post", url, body, config.contentType)
api_post_as(url, body, contentType) == RequestConfig("post", url, body, contentType)

-----------------------------------------------------------------------------
(* The requests the operations build, api.ts 45-144 *)

K_file == <<"f","i","l","e">>
K_contract_id == <<"c","o","n","t","r","a","c","t","_","i","d">>
K_analysis_type == <<"a","n","a","l","y","s","i","s","_","t","y","p","e">>
K_session_id == <<"s","e","s","s","i","o","n","_","i","d">>
FULL == <<"f","u","l","l">>

\* As uploadFormData, with the part under another name.
uploadFormData_contract(file) == FormData_append(NewFormData, K_contract_id, file)

uploadFormData(file) == FormData_append(NewFormData, K_file, file)

listUrl(skip, limit) ==
    <<"/","c","o","n","t","r","a","c","t","s","/","l","i","s","t","?","s","k","i","p","=">> \o ToString(Default(skip, Num(0)))
        \o <<"&","l","i","m","i","t","=">> \o ToString(Default(limit, Num(100)))

contractUrl(contractId) == <<"/","c","o","n","t","r","a","c","t","s","/">> \o ToString(contractId)

analyzeBody(contractId, analysisType) ==
    Obj(<<Prop(K_contract_id, contractId),
          Prop(K_analysis_type, Default(analysisType, Str(FULL)))>>)

contractAnalysisUrl(contractId) ==
    <<"/","a","n","a","l","y","s","i","s","/","c","o","n","t","r","a","c","t","/">> \o ToString(contractId) \o <<"/","a","n","a","l","y","s","i","s">>

\* As appendEntries, with the test written `if (value)`.
RECURSIVE appendEntries_truthy(_, _)
appendEntries_truthy(searchParams, entries) ==
    IF entries = <<>> THEN searchParams
    ELSE LET key == Head(entries).k
             value == Head(entries).v
         IN appendEntries_truthy(
                IF Truthy(value)
                THEN URLSearchParams_append(searchParams, key, ToString(value))
                ELSE searchParams,
                Tail(entries))

\* Object.entries(params).forEach: every own property whose value is neither
\* undefined nor null is appended, whatever its key.
RECURSIVE appendEntries(_, _)
appendEntries(searchParams, entries) ==
    IF entries = <<>> THEN searchParams
    ELSE LET key == Head(entries).k
             value == Head(entries).v
         IN appendEntries(
                IF value.t # "undefined" /\ value.t # "null"
                THEN URLSearchParams_append(searchParams, key, ToString(value))
                ELSE searchParams,
                Tail(entries))

getClausesUrl(params) ==
    LET p == Default(params, Obj(<<>>))
        searchParams == appendEntries(NewURLSearchParams, p.e)
    IN <<"/","d","a","t","a","s","e","t","/","c","l","a","u","s","e","s","?">> \o URLSearchParams_toString(searchParams)

clauseUrl(clauseId) == <<"/","d","a","t","a","s","e","t","/","c","l","a","u","s","e","s","/">> \o ToString(clauseId)

\* As sendMessageBody, with `?? null` on the optional arguments.
sendMessageBody_nulls(msg, sessionId, contractId) ==
    Obj(<<Prop(K_message, msg),
          Prop(K_session_id, Default(sessionId, Null)),
          Prop(K_contract_id, Default(contractId, Null))>>)

sendMessageBody(msg, sessionId, contractId) ==
    Obj(<<Prop(K_message, msg),
          Prop(K_session_id, sessionId),
          Prop(K_contract_id, contractId)>>)

-----------------------------------------------------------------------------
(* The transport: what axios puts on the wire and what it settles with *)

K_config == <<"c","o","n","f","i","g">>
ERR_BAD_RESPONSE == <<"E","R","R","_","B","A","D","_","R","E","S","P","O","N","S","E">>
ERR_NETWORK == <<"E","R","R","_","N","E","T","W","O","R","K">>
ECONNABORTED == <<"E","C","O","N","N","A","B","O","R","T","E","D">>
NETWORK_ERROR_TEXT == <<"N","e","t","w","o","r","k"," ","E","r","r","o","r">>

ToUpperCase(method) ==
    CASE method = "get" -> "GET" [] method = "post" -> "POST"
      [] method = "delete" -> "DELETE" [] OTHER -> method

\* transformRequest: an object is sent as JSON text, FormData as one multipart
\* part per entry, no data as no body.
TransformRequest(d) ==
    CASE d.t = "object" -> [t |-> "json", members |-> JSONMembers(d.e)]
      [] d.t = "formdata" ->
            [t |-> "multipart",
             parts |-> [i \in 1..Len(d.parts) |->
                          [name |-> d.parts[i].name,
                           filename |-> d.parts[i].value.name,
                           content |-> d.parts[i].value.content]]]
      [] OTHER -> [t |-> "none"]

HttpRequest(cfg) ==
    [t |-> "http", method |-> ToUpperCase(cfg.method), url |-> cfg.baseURL \o cfg.url,
     body |-> TransformRequest(cfg.data), contentType |-> cfg.contentType]

\* The server's answer is opaque to the gateway; it is tagged with the request
\* that it answers.
Payload(wire) == [t |-> "payload", url |-> wire.url, body |-> wire.body]

XHR == Obj(<<>>)

Response(cfg, st, body) ==
    Obj(<<Prop(K_status, Num(st)), Prop(K_data, body), Prop(K_config, cfg)>>)

AxiosError(text, errCode, cfg, res) ==
    Obj(<<Prop(K_message, Str(text)), Prop(K_code, Str(errCode)), Prop(K_config, cfg),
          Prop(K_request, XHR), Prop(K_response, res)>>)

BadStatusError(cfg, st, body) ==
    AxiosError(<<"R","e","q","u","e","s","t"," ","f","a","i","l","e","d"," ","w","i","t","h"," ","s","t","a","t","u","s"," ","c","o","d","e"," ">> \o NatToString(st), ERR_BAD_RESPONSE,
               cfg, Response(cfg, st, body))
NetworkFailure(cfg) == AxiosError(NETWORK_ERROR_TEXT, ERR_NETWORK, cfg, Undef)
TimeoutFailure(cfg) ==
    AxiosError(<<"t","i","m","e","o","u","t"," ","o","f"," ">> \o NatToString(cfg.timeout) \o <<"m","s"," ","e","x","c","e","e","d","e","d">>, ECONNABORTED,
               cfg, Undef)

-----------------------------------------------------------------------------
(* State *)

MaxCalls == 2
Calls == 1..MaxCalls

Pending == [kind |-> "pending", value |-> Undef]
Fulfilled(v) == [kind |-> "fulfilled", value |-> v]
Rejected(v) == [kind |-> "rejected", value |-> v]

Idle ==
    [pc |-> "idle", op |-> "", args |-> <<>>, req |-> Undef, cfg |-> Undef,
     wire |-> Undef, sent |-> 0, outcome |-> "none", settled |-> Undef,
     result |-> Pending]

Envs ==
    {[REACT_APP_API_URL |-> Undef, REACT_APP_API_VERSION |-> Undef],
     [REACT_APP_API_URL |-> Str(<<"h","t","t","p","s",":","/","/","l","e",".","e","x","a","m","p","l","e">>), REACT_APP_API_VERSION |-> Str(<<"v","2">>)]}

Init ==
    /\ \E env \in Envs : config = CreateApi(env)
    /\ calls = [c \in Calls |-> Idle]
    /\ console = [c \in Calls |-> <<>>]
    /\ failure = Undef
    /\ normalized = [kind |-> "pending"]

-----------------------------------------------------------------------------
(* The operations: each builds its request and hands it to the instance *)

Invoke(c, op, args, req) ==
    /\ calls[c].pc = "idle"
    /\ calls' = [calls EXCEPT ![c] = [@ EXCEPT !.pc = "created", !.op = op,
                                               !.args = args, !.req = req]]
    /\ UNCHANGED <<config, console, failure, normalized>>

healthAPI_check(c) == Invoke(c, "healthAPI.check", <<>>, api_get(<<"/","h","e","a","l","t","h">>))
healthAPI_detailed(c) == Invoke(c, "healthAPI.detailed", <<>>, api_get(<<"/","h","e","a","l","t","h","/","d","e","t","a","i","l","e","d">>))

contractAPI_upload(c, file) ==
    Invoke(c, "contractAPI.upload", <<file>>,
           api_post_as(<<"/","c","o","n","t","r","a","c","t","s","/","u","p","l","o","a","d">>, uploadFormData(file), MULTIPART_FORM_DATA))
contractAPI_list(c, skip, limit) ==
    Invoke(c, "contractAPI.list", <<skip, limit>>, api_get(listUrl(skip, limit)))
contractAPI_getById(c, contractId) ==
    Invoke(c, "contractAPI.getById", <<contractId>>, api_get(contractUrl(contractId)))
contractAPI_delete(c, contractId) ==
    Invoke(c, "contractAPI.delete", <<contractId>>, api_delete(contractUrl(contractId)))

analysisAPI_analyze(c, contractId, analysisType) ==
    Invoke(c, "analysisAPI.analyze", <<contractId, analysisType>>,
           api_post(<<"/","a","n","a","l","y","s","i","s","/","a","n","a","l","y","z","e">>, analyzeBody(contractId, analysisType)))
analysisAPI_getRiskLevels(c) ==
    Invoke(c, "analysisAPI.getRiskLevels", <<>>, api_get(<<"/","a","n","a","l","y","s","i","s","/","r","i","s","k","-","l","e","v","e","l","s">>))
analysisAPI_getClauseTypes(c) ==
    Invoke(c, "analysisAPI.getClauseTypes", <<>>, api_get(<<"/","a","n","a","l","y","s","i","s","/","c","l","a","u","s","e","-","t","y","p","e","s">>))
analysisAPI_getContractAnalysis(c, contractId) ==
    Invoke(c, "analysisAPI.getContractAnalysis", <<contractId>>,
           api_get(contractAnalysisUrl(contractId)))

\* As datasetAPI_getClauses, with one searchParams shared by the calls.
datasetAPI_getClauses_shared(c, params) ==
    LET prior == {d \in Calls \ {c} : calls[d].op = "datasetAPI.getClauses"}
        own == Default(params, Obj(<<>>))
        all == IF prior = {} THEN own
               ELSE Obj(Default(calls[CHOOSE d \in prior : TRUE].args[1], Obj(<<>>)).e \o own.e)
    IN Invoke(c, "datasetAPI.getClauses", <<params>>, api_get(getClausesUrl(all)))

datasetAPI_getClauses(c, params) ==
    Invoke(c, "datasetAPI.getClauses", <<params>>, api_get(getClausesUrl(params)))
datasetAPI_getClauseById(c, clauseId) ==
    Invoke(c, "datasetAPI.getClauseById", <<clauseId>>, api_get(clauseUrl(clauseId)))
datasetAPI_getClauseTypes(c) ==
    Invoke(c, "datasetAPI.getClauseTypes", <<>>, api_get(<<"/","d","a","t","a","s","e","t","/","c","l","a","u","s","e","s","/","t","y","p","e","s","/","l","i","s","t">>))
datasetAPI_getRiskLevels(c) ==
    Invoke(c, "datasetAPI.getRiskLevels", <<>>,
           api_get(<<"/","d","a","t","a","s","e","t","/","c","l","a","u","s","e","s","/","r","i","s","k","-","l","e","v","e","l","s","/","l","i","s","t">>))
datasetAPI_getStats(c) == Invoke(c, "datasetAPI.getStats", <<>>, api_get(<<"/","d","a","t","a","s","e","t","/","s","t","a","t","s">>))
datasetAPI_reload(c) ==
    Invoke(c, "datasetAPI.reload", <<>>, api_post(<<"/","d","a","t","a","s","e","t","/","r","e","l","o","a","d">>, Undef))

chatAPI_sendMessage(c, msg, sessionId, contractId) ==
    Invoke(c, "chatAPI.sendMessage", <<msg, sessionId, contractId>>,
           api_post(<<"/","c","h","a","t","/","a","s","k">>, sendMessageBody(msg, sessionId, contractId)))
chatAPI_getSuggestions(c) ==
    Invoke(c, "chatAPI.getSuggestions", <<>>, api_get(<<"/","c","h","a","t","/","s","u","g","g","e","s","t","i","o","n","s">>))

-----------------------------------------------------------------------------
(* The interceptors, api.ts 21-42, and the steps of one call *)

\* As onResponseError, with the failure normalised before it is rejected.
onResponseError_normalized(err) ==
    IF handleAPIError(err).kind = "return" THEN handleAPIError(err).value ELSE err

\* What the handlers return.
onRequest(cfg) == cfg
onResponse(res) == res
onResponseError(err) == err

\* What they write: the method and url, the status and url, the error's body
\* or message.
requestLog(cfg) ==
    [level |-> "log", about |-> "request", method |-> ToUpperCase(cfg.method),
     url |-> cfg.url]
responseLog(res) ==
    [level |-> "log", about |-> "response", status |-> Get(res, K_status),
     url |-> Get(res, K_config).url]
responseErrorLog(err) ==
    [level |-> "error", about |-> "error",
     what |-> Or(IF IsNullish(Get(err, K_response)) THEN Undef
                 ELSE Get(Get(err, K_response), K_data),
                 Get(err, K_message))]

RequestInterceptor(c) ==
    /\ calls[c].pc = "created"
    /\ console' = [console EXCEPT ![c] = Append(@, requestLog(calls[c].req))]
    /\ calls' = [calls EXCEPT ![c] = [@ EXCEPT !.pc = "ready", !.cfg = onRequest(calls[c].req)]]
    /\ UNCHANGED <<config, failure, normalized>>

\* The adapter sends the request: once per call.
Dispatch(c) ==
    /\ calls[c].pc = "ready"
    /\ calls' = [calls EXCEPT ![c] = [@ EXCEPT !.pc = "sent",
                                               !.wire = HttpRequest(calls[c].cfg),
                                               !.sent = @ + 1]]
    /\ UNCHANGED <<config, console, failure, normalized>>

Settle(c, outcome, value) ==
    /\ calls[c].pc = "sent"
    /\ calls' = [calls EXCEPT ![c] = [@ EXCEPT !.pc = "settled", !.outcome = outcome,
                                               !.settled = value]]
    /\ UNCHANGED <<config, console, failure, normalized>>

ServerSucceeds(c, st) ==
    Settle(c, "response", Response(calls[c].cfg, st, Payload(calls[c].wire)))
\* validateStatus: a status outside 2xx rejects with the response attached.
ServerFails(c, st, body) ==
    Settle(c, "error", BadStatusError(calls[c].cfg, st, body))
NoResponse(c) == Settle(c, "error", NetworkFailure(calls[c].cfg))
TimeoutExpires(c) == Settle(c, "error", TimeoutFailure(calls[c].cfg))

ResponseInterceptorFulfilled(c) ==
    /\ calls[c].pc = "settled"
    /\ calls[c].outcome = "response"
    /\ console' = [console EXCEPT ![c] = Append(@, responseLog(calls[c].settled))]
    /\ calls' = [calls EXCEPT ![c] = [@ EXCEPT !.pc = "done",
                                               !.result = Fulfilled(onResponse(calls[c].settled))]]
    /\ UNCHANGED <<config, failure, normalized>>

\* As ResponseInterceptorRejected, with the request sent once more first.
ResponseInterceptorRejected_retry(c) ==
    /\ calls[c].pc = "settled"
    /\ calls[c].outcome = "error"
    /\ console' = [console EXCEPT ![c] = Append(@, responseErrorLog(calls[c].settled))]
    /\ calls' = [calls EXCEPT ![c] =
                    IF calls[c].sent < 2
                    THEN [@ EXCEPT !.pc = "sent", !.sent = @ + 1]
                    ELSE [@ EXCEPT !.pc = "done",
                                   !.result = Rejected(onResponseError(calls[c].settled))]]
    /\ UNCHANGED <<config, failure, normalized>>

\* As ResponseInterceptorRejected, with `return error` for `Promise.reject(error)`.
ResponseInterceptorRejected_returns(c) ==
    /\ calls[c].pc = "settled"
    /\ calls[c].outcome = "error"
    /\ console' = [console EXCEPT ![c] = Append(@, responseErrorLog(calls[c].settled))]
    /\ calls' = [calls EXCEPT ![c] = [@ EXCEPT !.pc = "done",
                                               !.result = Fulfilled(onResponseError(calls[c].settled))]]
    /\ UNCHANGED <<config, failure, normalized>>

ResponseInterceptorRejected(c) ==
    /\ calls[c].pc = "settled"
    /\ calls[c].outcome = "error"
    /\ console' = [console EXCEPT ![c] = Append(@, responseErrorLog(calls[c].settled))]
    /\ calls' = [calls EXCEPT ![c] = [@ EXCEPT !.pc = "done",
                                               !.result = Rejected(onResponseError(calls[c].settled))]]
    /\ UNCHANGED <<config, failure, normalized>>

-----------------------------------------------------------------------------
(* Inputs *)

K_clause_type == <<"c","l","a","u","s","e","_","t","y","p","e">>
K_risk_level == <<"r","i","s","k","_","l","e","v","e","l">>
K_search_text == <<"s","e","a","r","c","h","_","t","e","x","t">>
K_page == <<"p","a","g","e">>
K_page_size == <<"p","a","g","e","_","s","i","z","e">>
K_clauseType == <<"c","l","a","u","s","e","T","y","p","e">>
K_riskLevel == <<"r","i","s","k","L","e","v","e","l">>
K_searchText == <<"s","e","a","r","c","h","T","e","x","t">>
K_pageSize == <<"p","a","g","e","S","i","z","e">>
DeclaredKeys == {K_clause_type, K_risk_level, K_search_text, K_page, K_page_size}
NDA == <<"N","D","A">>

File(name, content) == [t |-> "file", name |-> name, content |-> content]
Files == {File(<<"a",".","p","d","f">>, <<"%","P","D","F">>), File(<<"b",".","t","x","t">>, <<"l","e","a","s","e">>)}

ContractIds == {Num(1), Num(42)}
Messages == {Str(<<"h","i">>)}
SessionIds == {Undef, Null, Str(<<"s","1">>)}
OptContractIds == {Undef, Null, Num(7)}
AnalysisTypes == {Undef, Str(<<"q","u","i","c","k">>)}
Skips == {Undef, Num(0), Num(20)}
Limits == {Undef, Num(10)}

\* Filters: objects of up to MaxFilterKeys distinct keys.  The declared keys
\* are the snake_case ones; nothing at run time keeps other keys out.
MaxFilterKeys == 2
\* Three of the declared keys and one that is not declared.
FilterKeys == {K_clause_type, K_search_text, K_page, K_clauseType}
FilterValues == {Undef, Null, Str(NDA), Str(<<"a"," ","b","&","c","=","d">>), Str(<<>>), Num(25)}
RECURSIVE FilterEntries(_)
FilterEntries(n) ==
    IF n = 0 THEN {<<>>}
    ELSE LET shorter == FilterEntries(n - 1)
         IN shorter \cup
            {Append(e, Prop(k, v)) :
                e \in {x \in shorter : Len(x) = n - 1},
                k \in FilterKeys, v \in FilterValues}
DistinctKeys(e) == \A i, j \in 1..Len(e) : i # j => e[i].k # e[j].k
Filters == {Obj(e) : e \in {x \in FilterEntries(MaxFilterKeys) : DistinctKeys(x)}} \cup {Undef}

CoreFiles == {File(<<"a",".","p","d","f">>, <<"%","P","D","F">>)}
CoreFilters == {Obj(<<>>), Obj(<<Prop(K_clause_type, Str(NDA))>>)}

SuccessStatuses == {200}
ErrorStatuses == {404, 500}
ErrorBodies ==
    {Obj(<<Prop(K_detail, Str(<<"N","o","t"," ","f","o","u","n","d">>))>>),
     Obj(<<Prop(K_error, Str(<<"b","o","o","m">>)), Prop(K_error_code, Str(<<"E","4","2">>))>>),
     Str(<<>>)}

-----------------------------------------------------------------------------
(* Specifications *)

\* The steps of a call once it is made.
Steps(c) ==
    \/ RequestInterceptor(c)
    \/ Dispatch(c)
    \/ \E st \in SuccessStatuses : ServerSucceeds(c, st)
    \/ NoResponse(c)
    \/ TimeoutExpires(c)
    \/ ResponseInterceptorFulfilled(c)
    \/ ResponseInterceptorRejected(c)

\* Concurrent callers: any call may be made, and take its next step, at any
\* time.  Four operations, one of each kind of request, stand for the
\* eighteen; SpecOps below runs them all.
HI == <<"h","i">>
S1 == <<"s","1">>
NOT_FOUND == <<"N","o","t"," ","f","o","u","n","d">>

Next ==
    \E c \in Calls :
        \/ healthAPI_check(c)
        \/ \E file \in CoreFiles : contractAPI_upload(c, file)
        \/ \E params \in CoreFilters : datasetAPI_getClauses(c, params)
        \/ chatAPI_sendMessage(c, Str(HI), Str(S1), Undef)
        \/ Steps(c)
        \/ ServerFails(c, 500, Obj(<<Prop(K_detail, Str(NOT_FOUND))>>))

Spec == Init /\ [][Next]_vars

\* One caller, every operation, every argument.
NextOps ==
    LET c == 1 IN
        \/ healthAPI_check(c)
        \/ healthAPI_detailed(c)
        \/ \E file \in Files : contractAPI_upload(c, file)
        \/ \E skip \in Skips, limit \in Limits : contractAPI_list(c, skip, limit)
        \/ \E id \in ContractIds : contractAPI_getById(c, id)
        \/ \E id \in ContractIds : contractAPI_delete(c, id)
        \/ \E id \in ContractIds, ty \in AnalysisTypes : analysisAPI_analyze(c, id, ty)
        \/ analysisAPI_getRiskLevels(c)
        \/ analysisAPI_getClauseTypes(c)
        \/ \E id \in ContractIds : analysisAPI_getContractAnalysis(c, id)
        \/ (calls[c].pc = "idle" /\ \E params \in Filters : datasetAPI_getClauses(c, params))
        \/ \E id \in ContractIds : datasetAPI_getClauseById(c, id)
        \/ datasetAPI_getClauseTypes(c)
        \/ datasetAPI_getRiskLevels(c)
        \/ datasetAPI_getStats(c)
        \/ datasetAPI_reload(c)
        \/ \E m \in Messages, s \in SessionIds, id \in OptContractIds :
              chatAPI_sendMessage(c, m, s, id)
        \/ chatAPI_getSuggestions(c)
        \/ Steps(c)
        \/ \E st \in ErrorStatuses, body \in ErrorBodies : ServerFails(c, st, body)

SpecOps == Init /\ [][NextOps]_vars

\* handleAPIError on its own: any value may be thrown at it.
SampleConfig == [t |-> "config", method |-> "get", url |-> <<"/","h","e","a","l","t","h">>, data |-> Undef,
                 baseURL |-> LOCALHOST \o <<"/","a","p","i","/">> \o V1, timeout |-> TimeoutMs,
                 contentType |-> APPLICATION_JSON]
Bodies ==
    {Undef, Null, Str(<<>>)} \cup
    {Obj(<<Prop(K_detail, d), Prop(K_error, e), Prop(K_error_code, ec)>>) :
        d \in {Undef, Str(<<>>), Str(<<"X">>)},
        e \in {Undef, Str(<<>>), Str(<<"Y">>)},
        ec \in {Undef, Str(<<"E","4","2">>)}}
Responses ==
    {Undef, Null} \cup
    {Obj(<<Prop(K_status, Num(st)), Prop(K_data, b)>>) : st \in ErrorStatuses, b \in Bodies}
FailureValues ==
    {Undef, Null} \cup
    {Obj(<<Prop(K_message, m), Prop(K_request, rq), Prop(K_response, rs)>>) :
        m \in {Undef, Str(<<>>), Str(<<"b","a","d"," ","u","r","l">>)},
        rq \in {Undef, XHR},
        rs \in Responses} \cup
    {NetworkFailure(SampleConfig), TimeoutFailure(SampleConfig)} \cup
    {BadStatusError(SampleConfig, st, b) : st \in ErrorStatuses, b \in ErrorBodies}

InitErr ==
    /\ config = CreateApi(CHOOSE env \in Envs : env.REACT_APP_API_URL = Undef)
    /\ calls = [c \in Calls |-> Idle]
    /\ console = [c \in Calls |-> <<>>]
    /\ failure \in FailureValues
    /\ normalized = [kind |-> "pending"]

Normalize ==
    /\ normalized.kind = "pending"
    /\ normalized' = handleAPIError(failure)
    /\ UNCHANGED <<config, calls, console, failure>>

NextErr == Normalize

SpecErr == InitErr /\ [][NextErr]_vars


-----------------------------------------------------------------------------
(* What the properties speak of *)

Present(v) == ~IsNullish(v)
Has(o, k) == Get(o, k) # Undef
Keys(o) == [i \in 1..Len(o.e) |-> o.e[i].k]
Range(s) == {s[i] : i \in 1..Len(s)}

\* A Normalized Error: an object of exactly message, status and code.
IsNormalizedError(v) == v.t = "object" /\ Keys(v) = <<K_message, K_status, K_code>>

Started(c) == calls[c].pc # "idle"
Sent(c) == calls[c].pc \in {"sent", "settled", "done"}
Done(c) == calls[c].pc = "done"

\* Reading a query string back, as the receiving side does: split at "&",
\* then at the first "=", "+" is a space and %XX a character.
IndexOf(s, ch) == CHOOSE i \in 1..Len(s) : s[i] = ch /\ \A j \in 1..(i - 1) : s[j] # ch

RECURSIVE SplitOn(_, _)
SplitOn(s, ch) ==
    IF ch \notin Range(s) THEN <<s>>
    ELSE LET i == IndexOf(s, ch)
         IN <<SubSeq(s, 1, i - 1)>> \o SplitOn(SubSeq(s, i + 1, Len(s)), ch)

RECURSIVE FormUrlDecode(_)
FormUrlDecode(s) ==
    IF s = <<>> THEN <<>>
    ELSE IF Head(s) = "+" THEN <<" ">> \o FormUrlDecode(Tail(s))
    ELSE IF Head(s) = "%" /\ Len(s) >= 3
              /\ \E ch \in DOMAIN PercentCode : PercentCode[ch] = SubSeq(s, 1, 3)
         THEN <<CHOOSE ch \in DOMAIN PercentCode : PercentCode[ch] = SubSeq(s, 1, 3)>>
              \o FormUrlDecode(SubSeq(s, 4, Len(s)))
    ELSE <<Head(s)>> \o FormUrlDecode(Tail(s))

NonEmpty(s) == s # <<>>
ParseQuery(q) ==
    LET segs == SelectSeq(SplitOn(q, "&"), NonEmpty)
    IN [i \in 1..Len(segs) |->
          IF "=" \in Range(segs[i])
          THEN LET j == IndexOf(segs[i], "=")
               IN [name |-> FormUrlDecode(SubSeq(segs[i], 1, j - 1)),
                   value |-> FormUrlDecode(SubSeq(segs[i], j + 1, Len(segs[i])))]
          ELSE [name |-> FormUrlDecode(segs[i]), value |-> <<>>]]

\* The part of a url after its first "?".
QueryOf(url) == SubSeq(url, IndexOf(url, "?") + 1, Len(url))
PathOf(url) == SubSeq(url, 1, IndexOf(url, "?") - 1)

\* The parameters a filter stands for: its entries, restricted to the given
\* keys, whose value is neither undefined nor null, each with its value as text.
RECURSIVE ParamsOf(_, _)
ParamsOf(entries, keys) ==
    IF entries = <<>> THEN <<>>
    ELSE (IF Head(entries).k \in keys /\ Present(Head(entries).v)
          THEN <<[name |-> Head(entries).k, value |-> ToString(Head(entries).v)]>>
          ELSE <<>>) \o ParamsOf(Tail(entries), keys)

FilterOf(c) == Default(calls[c].args[1], Obj(<<>>))
AllKeysOf(c) == Range(Keys(FilterOf(c)))
RecognizedKeys == {K_clauseType, K_riskLevel, K_searchText, K_page, K_pageSize}

-----------------------------------------------------------------------------
(* C1 *)

-----------------------------------------------------------------------------
(* C2, C3, C4: handleAPIError *)

Applied == normalized.kind # "pending"

\* C2: handleAPIError returns a Normalized Error for every failure value and
\* never throws: the server case (the response's status, the body's
\* error_code) when a response is present, even with a request; else the
\* network case when a request is present; else the unknown case, with the
\* failure's own message or the generic one, status -1 and UNKNOWN_ERROR.
C2_TotalWithPrecedence ==
    Applied =>
        /\ normalized.kind = "return"
        /\ IsNormalizedError(normalized.value)
        /\ IF Present(Get(failure, K_response))
           THEN /\ Get(normalized.value, K_status) = Get(Get(failure, K_response), K_status)
                /\ Get(normalized.value, K_code)
                     = Get(Get(Get(failure, K_response), K_data), K_error_code)
           ELSE IF Present(Get(failure, K_request))
           THEN normalized.value
                  = NormalizedError(Str(NETWORK_ERROR_MESSAGE), Num(0), Str(NETWORK_ERROR))
           ELSE normalized.value
                  = NormalizedError(
                        IF Get(failure, K_message) \in {Undef, Str(<<>>)}
                        THEN Str(UNEXPECTED_ERROR_MESSAGE) ELSE Get(failure, K_message),
                        Num(-1), Str(UNKNOWN_ERROR))

\* C3: for a failure that carries a response, the status is the response's
\* and the message is the body's detail if the body has it, else the body's
\* error if the body has it, else the generic string; for every body, one
\* with an empty detail and a missing body included.
C3_MessageChain ==
    Applied /\ Present(Get(failure, K_response)) =>
        LET res == Get(failure, K_response)
            body == Get(res, K_data)
        IN /\ normalized.kind = "return"
           /\ Get(normalized.value, K_status) = Get(res, K_status)
           /\ Get(normalized.value, K_message)
                = (IF Has(body, K_detail) THEN Get(body, K_detail)
                   ELSE IF Has(body, K_error) THEN Get(body, K_error)
                   ELSE Str(AN_ERROR_OCCURRED))

\* C4: for a failure with a request and no response, a timeout included, the
\* result is exactly the network error, whatever else the failure holds.
C4_NetworkErrorExact ==
    Applied /\ ~Present(Get(failure, K_response)) /\ Present(Get(failure, K_request)) =>
        normalized
          = Return(NormalizedError(Str(NETWORK_ERROR_MESSAGE), Num(0), Str(NETWORK_ERROR)))

C4_Witness ==
    /\ Applied
    /\ failure = TimeoutFailure(SampleConfig)
    /\ Get(failure, K_code) = Str(ECONNABORTED)

-----------------------------------------------------------------------------
(* C5: datasetAPI.getClauses *)

IsGetClauses(c) == calls[c].op = "datasetAPI.getClauses"

\* C5, as stated: the query string holds one parameter for each recognized
\* key {clauseType, riskLevel, searchText, page, pageSize} that is present and
\* non-null, with its value, and no parameter for any other key.
C5_OnlyRecognizedKeys ==
    \A c \in Calls : IsGetClauses(c) =>
        ParseQuery(QueryOf(calls[c].req.url)) = ParamsOf(FilterOf(c).e, RecognizedKeys)

\* C5, amended: the query string holds one parameter for each key of the
\* filter, whatever the key (the declared keys are clause_type, risk_level,
\* search_text, page and page_size), whose value is neither undefined nor
\* null, in the filter's order, with the value's text, form-urlencoded, and no
\* other parameter; {clauseType: "NDA"} gives exactly clauseType=NDA and {}
\* gives the empty query string.
C5_EveryNonNullKey ==
    \A c \in Calls : IsGetClauses(c) =>
        LET url == calls[c].req.url
            entries == FilterOf(c).e
        IN /\ PathOf(url) = <<"/","d","a","t","a","s","e","t","/","c","l","a","u","s","e","s">>
           /\ ParseQuery(QueryOf(url)) = ParamsOf(entries, AllKeysOf(c))
           /\ entries = <<Prop(K_clauseType, Str(NDA))>> => QueryOf(url) = <<"c","l","a","u","s","e","T","y","p","e","=","N","D","A">>
           /\ entries = <<>> => QueryOf(url) = <<>>

C5_Witness ==
    \E c \in Calls :
        /\ IsGetClauses(c)
        /\ Started(c)
        /\ FilterOf(c).e = <<Prop(K_search_text, Str(<<"a"," ","b","&","c","=","d">>)), Prop(K_page, Null)>>
        /\ Len(ParseQuery(QueryOf(calls[c].req.url))) = 1

-----------------------------------------------------------------------------
(* C6: chatAPI.sendMessage *)

IsSendMessage(c) == calls[c].op = "chatAPI.sendMessage"
Member(k, v) == Prop(k, v)

-----------------------------------------------------------------------------
(* C8: contractAPI.upload *)

IsUpload(c) == calls[c].op = "contractAPI.upload"

\* C8: upload(file) issues a POST to /contracts/upload whose multipart body
\* holds exactly one part, named file, with the given file's content.
C8_OnePartNamedFile ==
    \A c \in Calls : IsUpload(c) /\ Sent(c) =>
        LET body == calls[c].wire.body
        IN /\ calls[c].wire.method = "POST"
           /\ calls[c].wire.url = calls[c].cfg.baseURL \o <<"/","c","o","n","t","r","a","c","t","s","/","u","p","l","o","a","d">>
           /\ calls[c].wire.contentType = MULTIPART_FORM_DATA
           /\ body.t = "multipart"
           /\ Len(body.parts) = 1
           /\ body.parts[1].name = K_file
           /\ body.parts[1].content = calls[c].args[1].content
           /\ body.parts[1].filename = calls[c].args[1].name

C8_Witness ==
    \E c \in Calls :
        /\ IsUpload(c)
        /\ Done(c)
        /\ calls[c].args[1] = File(<<"b",".","t","x","t">>, <<"l","e","a","s","e">>)
        /\ calls[c].result.kind = "fulfilled"

-----------------------------------------------------------------------------
(* C7: concurrent calls *)

\* The request of call c is made of c's own arguments and the configuration.
OwnRequest(c) ==
    LET req == calls[c].req
        args == calls[c].args
    IN /\ req.baseURL = config.baseURL
       /\ req.timeout = config.timeout
       /\ CASE calls[c].op = "datasetAPI.getClauses" ->
                 /\ PathOf(req.url) = <<"/","d","a","t","a","s","e","t","/","c","l","a","u","s","e","s">>
                 /\ ParseQuery(QueryOf(req.url)) = ParamsOf(FilterOf(c).e, AllKeysOf(c))
            [] calls[c].op = "contractAPI.upload" ->
                 /\ req.url = <<"/","c","o","n","t","r","a","c","t","s","/","u","p","l","o","a","d">>
                 /\ req.data.t = "formdata"
                 /\ req.data.parts = <<[name |-> K_file, value |-> args[1]]>>
            [] calls[c].op = "chatAPI.sendMessage" ->
                 /\ req.url = <<"/","c","h","a","t","/","a","s","k">>
                 /\ req.data = Obj(<<Prop(K_message, args[1]), Prop(K_session_id, args[2]),
                                     Prop(K_contract_id, args[3])>>)
            [] calls[c].op = "healthAPI.check" ->
                 /\ req.url = <<"/","h","e","a","l","t","h">>
                 /\ req.data = Undef
            [] OTHER -> FALSE

\* What call c gets back answers c's own request.
OwnOutcome(c) ==
    /\ Sent(c) => calls[c].wire = HttpRequest(calls[c].req)
    /\ calls[c].pc \in {"settled", "done"} =>
          /\ Get(calls[c].settled, K_config) = calls[c].req
          /\ calls[c].outcome = "response" =>
                Get(calls[c].settled, K_data) = Payload(HttpRequest(calls[c].req))
          /\ calls[c].outcome = "error" /\ Present(Get(calls[c].settled, K_response)) =>
                Get(Get(calls[c].settled, K_response), K_config) = calls[c].req
    /\ Done(c) => calls[c].result.value = calls[c].settled

\* C7: under every interleaving of the steps of concurrent calls, each call's
\* request is built from its own parameters only and each caller receives
\* the outcome of its own request only; no step changes the configuration.
C7_NoCrossContamination ==
    /\ [](\A c \in Calls : Started(c) => OwnRequest(c) /\ OwnOutcome(c))
    /\ [][config' = config]_vars

C7_Witness ==
    \E c, d \in Calls :
        /\ c # d
        /\ IsGetClauses(c) /\ IsGetClauses(d)
        /\ FilterOf(c).e # <<>> /\ FilterOf(d).e = <<>>
        /\ calls[c].pc = "settled" /\ calls[c].outcome = "response"
        /\ calls[d].pc = "sent"

-----------------------------------------------------------------------------
(* C9: one request per invocation *)

OneRequest(c) ==
    /\ calls[c].sent = (IF Sent(c) THEN 1 ELSE 0)
    /\ Done(c) /\ calls[c].outcome = "error" => calls[c].result.kind = "rejected"

AfterFailureNothingMore(c) ==
    calls[c].outcome = "error" =>
        /\ calls'[c].sent = calls[c].sent
        /\ calls'[c].wire = calls[c].wire
        /\ calls'[c].settled = calls[c].settled
        /\ calls'[c].pc \in {"settled", "done"}

OthersUntouched(c) ==
    calls'[c] # calls[c] =>
        \A d \in Calls \ {c} : calls'[d] = calls[d] /\ console'[d] = console[d]

\* C9: every invocation dispatches exactly one HTTP request; after a failure
\* no further request is issued for it, the failure is signalled to the
\* caller, and no step of one invocation changes another invocation.
C9_OneRequestNoRetry ==
    /\ [](\A c \in Calls : OneRequest(c))
    /\ [][\A c \in Calls : AfterFailureNothingMore(c) /\ OthersUntouched(c)]_vars

C9_Witness ==
    \E c, d \in Calls :
        /\ c # d
        /\ Done(c) /\ calls[c].result.kind = "rejected" /\ calls[c].sent = 1
        /\ Get(calls[c].settled, K_code) = Str(ECONNABORTED)
        /\ Done(d) /\ calls[d].result.kind = "fulfilled" /\ calls[d].sent = 1

-----------------------------------------------------------------------------
(* C10: the interceptors *)

\* C10: the request interceptor writes one entry and passes the request
\* configuration on unchanged; the response interceptor writes one entry and
\* passes a response on as a success, a failure on as the same failure.
C10_InterceptorsOnlyLog ==
    \A c \in Calls :
        /\ Len(console[c]) = (CASE calls[c].pc \in {"idle", "created"} -> 0
                                [] calls[c].pc \in {"ready", "sent", "settled"} -> 1
                                [] OTHER -> 2)
        /\ calls[c].pc \notin {"idle", "created"} =>
              /\ calls[c].cfg = calls[c].req
              /\ console[c][1].about = "request"
              /\ console[c][1].url = calls[c].req.url
              /\ console[c][1].method \in {"GET", "POST", "DELETE"}
        /\ Done(c) /\ calls[c].outcome = "response" =>
              /\ calls[c].result = Fulfilled(calls[c].settled)
              /\ console[c][2].about = "response"
              /\ console[c][2].status = Get(calls[c].settled, K_status)
              /\ console[c][2].url = calls[c].req.url
        /\ Done(c) /\ calls[c].outcome = "error" =>
              /\ calls[c].result = Rejected(calls[c].settled)
              /\ console[c][2].about = "error"

C10_Witness ==
    \E c, d \in Calls :
        /\ c # d
        /\ Done(c) /\ IsUpload(c) /\ Get(calls[c].settled, K_code) = Str(ERR_NETWORK)
        /\ Done(d) /\ calls[d].op = "healthAPI.check" /\ calls[d].outcome = "response"
        /\ Len(console[c]) = 2 /\ Len(console[d]) = 2

====
